---- MODULE Spec2Model ----
(***************************************************************************)
(* A model of the CortensorMCP tool server (class CortensorMCP,            *)
(* configureServer): the three session tools working on the durable        *)
(* key-value storage, the six inference-backed tools, and the status       *)
(* probe.  Every tool handler is an async function; it is modelled as one  *)
(* action per stretch of code between two awaits, so that the handlers of  *)
(* concurrently running invocations interleave at their awaits.            *)
(***************************************************************************)
EXTENDS Integers, Sequences, FiniteSets, TLC

VARIABLES
    store,      \* ctx.storage: "session:<id>" -> stored session record
    call,       \* per invocation slot: the tool and the arguments it runs with
    pc,         \* per invocation slot: "idle", "put" (awaiting storage.put),
                \*   "fetch" (awaiting the network)
    session,    \* per invocation slot: the handler's local `session` object
    returned,   \* the response the last step handed to the dispatcher: the call
                \*   and what its handler returned (or the fault that escaped
                \*   it); NoReturn when the last step returned nothing
    prompt,     \* per invocation slot: the prompt handed to cortensorInfer
    calls,      \* number of invocations dispatched so far
    seen,       \* history variable: the record the slot's storage.get returned
    okCount,    \* history variable: per id, session_remember calls that returned success
    lastVal,    \* history variable: per id and key, value of the last successful remember
    raced       \* history variable: per id, a put has overwritten a record other
                \*   than the one its handler had read

vars == <<store, call, pc, session, returned, prompt, calls, seen, okCount, lastVal, raced>>

-----------------------------------------------------------------------------
(* Bounds of the model *)

MaxCalls == 3
MaxRubric == 2

Procs == {"p1", "p2"}

-----------------------------------------------------------------------------
(* JavaScript values *)

Undefined == "<undefined>"          \* the value undefined / an omitted argument
ObjectPrototype == "<Object.prototype>"

ExplicitIds == {"a"}
GenIds == {"s_1", "s_2"}
StoreIds == ExplicitIds \cup GenIds
LookupIds == ExplicitIds \cup {"s_1"}    \* ids session_remember and session_recall are called with

Keys == {"", "k", "__proto__"}
Values == {"v1", "v2"}

(* An object used as a map: the sequence of its own properties <<key, value>>
   in insertion order. *)
EmptyObject == <<>>

RECURSIVE ObjectKeys(_)
ObjectKeys(obj) ==
    IF obj = <<>> THEN <<>> ELSE <<obj[1][1]>> \o ObjectKeys(Tail(obj))

HasOwn(obj, key) == \E i \in 1..Len(obj) : obj[i][1] = key

OwnValue(obj, key) == obj[CHOOSE i \in 1..Len(obj) : obj[i][1] = key][2]

(* obj[key]: an own property, else what Object.prototype answers. *)
GetProp(obj, key) ==
    IF HasOwn(obj, key) THEN OwnValue(obj, key)
    ELSE IF key = "__proto__" THEN ObjectPrototype
    ELSE Undefined

(* obj[key] = value, value a primitive: "__proto__" reaches the setter
   inherited from Object.prototype, which ignores a primitive and adds no
   own property. *)
SetProp(obj, key, value) ==
    IF key = "__proto__" THEN obj
    ELSE IF HasOwn(obj, key)
         THEN [i \in 1..Len(obj) |->
                  IF obj[i][1] = key THEN <<key, value>> ELSE obj[i]]
         ELSE Append(obj, <<key, value>>)

Quote(s) == "\"" \o s \o "\""

(* Array.prototype.join *)
RECURSIVE Join(_, _)
Join(lines, sep) ==
    IF lines = <<>> THEN ""
    ELSE IF Len(lines) = 1 THEN lines[1]
    ELSE lines[1] \o sep \o Join(Tail(lines), sep)

(* JSON.stringify(obj, null, 2) of an object whose values are strings. *)
StringifyObject(obj) ==
    IF obj = <<>> THEN "{}"
    ELSE "{\n"
         \o Join([i \in 1..Len(obj) |->
                     "  " \o Quote(obj[i][1]) \o ": " \o Quote(obj[i][2])], ",\n")
         \o "\n}"

(* JSON.stringify(data, null, 2) of what session_recall reads. *)
StringifyData(data, isObject) ==
    IF isObject THEN StringifyObject(data)
    ELSE IF data = Undefined THEN Undefined
    ELSE IF data = ObjectPrototype THEN "{}"
    ELSE Quote(data)

(* JSON.stringify({ session_id, context_keys }, null, 2). *)
StringifyCreated(id, keys) ==
    "{\n  \"session_id\": " \o Quote(id) \o ",\n  \"context_keys\": "
    \o (IF keys = <<>> THEN "[]"
        ELSE "[\n"
             \o Join([i \in 1..Len(keys) |-> "    " \o Quote(keys[i])], ",\n")
             \o "\n  ]")
    \o "\n}"

-----------------------------------------------------------------------------
(* Records *)

NoSession == [exists |-> FALSE, history |-> <<>>, context |-> <<>>]

NewSession(context) == [exists |-> TRUE, history |-> <<>>, context |-> context]

(* An optional argument that is not a string: given or not, and its value. *)
NotGiven(default) == [given |-> FALSE, value |-> default]
Given(v) == [given |-> TRUE, value |-> v]

InitialContexts == { NotGiven(EmptyObject), Given(<< <<"k", "v1">> >>) }

NoCall ==
    [tool |-> "none", session_id |-> Undefined, id |-> "", key |-> Undefined,
     value |-> Undefined, initial_context |-> NotGiven(EmptyObject),
     args |-> <<>>]

(* What a handler hands back: { content: [{ type: 'text', text }] }, or the
   rejection of its promise. *)
NoResult == [type |-> "none", text |-> ""]
Text(t) == [type |-> "text", text |-> t]
Fault == [type |-> "fault", text |-> ""]

NoValues == [k \in Keys |-> Undefined]

(* Truthiness of an optional string argument: undefined and "" are falsy. *)
Truthy(s) == s # Undefined /\ s # ""

-----------------------------------------------------------------------------
(* The network: what fetch() settles with *)

NoBody == [kind |-> "none", result |-> Undefined, json |-> ""]

(* Response bodies: not JSON; the JSON null; objects with a result, with an
   empty result and without one (json: the body's JSON.stringify). *)
Bodies ==
    { [kind |-> "invalid", result |-> Undefined, json |-> ""],
      [kind |-> "null", result |-> Undefined, json |-> "null"],
      [kind |-> "object", result |-> "R", json |-> "{\"result\":\"R\"}"],
      [kind |-> "object", result |-> "", json |-> "{\"result\":\"\"}"],
      [kind |-> "object", result |-> Undefined, json |-> "{\"error\":\"busy\"}"] }

Responses ==
    { [kind |-> "rejected", status |-> 0, message |-> "fetch failed", body |-> NoBody] }
    \cup { [kind |-> "response", status |-> 503, message |-> "", body |-> NoBody] }
    \cup { [kind |-> "response", status |-> 200, message |-> "", body |-> b] :
             b \in Bodies }

(* response.ok *)
Ok(response) == response.status >= 200 /\ response.status <= 299

-----------------------------------------------------------------------------
(* The durable storage *)

StorageGet(st, id) == st[id]

(* Mutation: the storage key leaves out the session id, so every session
   shares one record. *)
StoragePutShared(st, id, sess) == [i \in DOMAIN st |-> sess]

StoragePut(st, id, sess) == [st EXCEPT ![id] = sess]

-----------------------------------------------------------------------------
(* The session handlers' computations *)

(* const id = session_id || `s_${Date.now()}_${random}` *)
SessionId(session_id, generated) ==
    IF Truthy(session_id) THEN session_id ELSE generated

(* session = { history: [], context: initial_context || {} } *)
CreatedSession(initial_context) ==
    NewSession(IF initial_context.given THEN initial_context.value ELSE EmptyObject)

CreateResult(id, sess) == Text(StringifyCreated(id, ObjectKeys(sess.context)))

NotFound(session_id) == Text("session " \o session_id \o " not found")

(* Mutation: the history entry is not pushed. *)
RememberedNoHistory(sess, key, value) ==
    [sess EXCEPT !.context = SetProp(@, key, value)]

(* session.context[key] = value; session.history.push(`stored:${key}`) *)
Remembered(sess, key, value) ==
    [sess EXCEPT !.context = SetProp(@, key, value),
                 !.history = Append(@, "stored:" \o key)]

RememberResult(key) == Text("stored " \o Quote(key) \o " in session")

(* const data = key ? session.context[key] : session.context *)
RecallResult(sess, key) ==
    Text(IF Truthy(key)
         THEN StringifyData(GetProp(sess.context, key), FALSE)
         ELSE StringifyData(sess.context, TRUE))

-----------------------------------------------------------------------------
(* The session tools.  A handler runs from its dispatch through its
   storage.get up to its next await in one step; the storage.put it awaits
   takes effect in a later step.  What a handler returns goes to the
   dispatcher (`returned`), and its slot is free again. *)

NoResponse == [kind |-> "none", status |-> 0, message |-> "", body |-> NoBody]

NoReturn == [call |-> NoCall, result |-> NoResult, response |-> NoResponse]

(* A new invocation takes the first free slot. *)
FreeSlot ==
    IF pc["p1"] = "idle" THEN "p1" ELSE IF pc["p2"] = "idle" THEN "p2" ELSE "none"

Dispatched(p) ==
    /\ p = FreeSlot
    /\ calls < MaxCalls
    /\ calls' = calls + 1

Returns(p, c, r) ==
    /\ returned' = [call |-> c, result |-> r, response |-> NoResponse]
    /\ pc' = [pc EXCEPT ![p] = "idle"]
    /\ call' = [call EXCEPT ![p] = NoCall]
    /\ session' = [session EXCEPT ![p] = NoSession]
    /\ seen' = [seen EXCEPT ![p] = NoSession]

AwaitsPut(p, c, sess, read) ==
    /\ call' = [call EXCEPT ![p] = c]
    /\ session' = [session EXCEPT ![p] = sess]
    /\ seen' = [seen EXCEPT ![p] = read]
    /\ pc' = [pc EXCEPT ![p] = "put"]
    /\ returned' = NoReturn

(* Mutation: the `if (!session)` test is missing, a create always writes. *)
SessionCreateOverwrites(p, session_id, initial_context, generated) ==
    LET id == SessionId(session_id, generated)
        read == StorageGet(store, id)
        c == [NoCall EXCEPT !.tool = "session_create",
                            !.session_id = session_id, !.id = id,
                            !.initial_context = initial_context]
    IN  /\ Dispatched(p)
        /\ AwaitsPut(p, c, CreatedSession(initial_context), read)
        /\ UNCHANGED <<store, prompt, okCount, lastVal, raced>>

SessionCreate(p, session_id, initial_context, generated) ==
    LET id == SessionId(session_id, generated)
        read == StorageGet(store, id)
        c == [NoCall EXCEPT !.tool = "session_create",
                            !.session_id = session_id, !.id = id,
                            !.initial_context = initial_context]
    IN  /\ Dispatched(p)
        /\ IF read.exists
           THEN Returns(p, c, CreateResult(id, read))
           ELSE AwaitsPut(p, c, CreatedSession(initial_context), read)
        /\ UNCHANGED <<store, prompt, okCount, lastVal, raced>>

SessionCreatePut(p) ==
    /\ pc[p] = "put"
    /\ call[p].tool = "session_create"
    /\ store' = StoragePut(store, call[p].id, session[p])
    /\ raced' = [raced EXCEPT ![call[p].id] = @ \/ store[call[p].id] # seen[p]]
    /\ Returns(p, call[p], CreateResult(call[p].id, session[p]))
    /\ UNCHANGED <<prompt, calls, okCount, lastVal>>

(* Mutation: a remember on a missing session creates it. *)
SessionRememberUpserts(p, session_id, key, value) ==
    LET read == StorageGet(store, session_id)
        c == [NoCall EXCEPT !.tool = "session_remember",
                            !.session_id = session_id, !.id = session_id,
                            !.key = key, !.value = value]
    IN  /\ Dispatched(p)
        /\ AwaitsPut(p, c, Remembered(IF read.exists THEN read
                                      ELSE NewSession(EmptyObject), key, value),
                     read)
        /\ UNCHANGED <<store, prompt, okCount, lastVal, raced>>

SessionRemember(p, session_id, key, value) ==
    LET read == StorageGet(store, session_id)
        c == [NoCall EXCEPT !.tool = "session_remember",
                            !.session_id = session_id, !.id = session_id,
                            !.key = key, !.value = value]
    IN  /\ Dispatched(p)
        /\ IF ~read.exists
           THEN Returns(p, [c EXCEPT !.value = Undefined], NotFound(session_id))
           ELSE AwaitsPut(p, c, Remembered(read, key, value), read)
        /\ UNCHANGED <<store, prompt, okCount, lastVal, raced>>

SessionRememberPut(p) ==
    /\ pc[p] = "put"
    /\ call[p].tool = "session_remember"
    /\ store' = StoragePut(store, call[p].id, session[p])
    /\ raced' = [raced EXCEPT ![call[p].id] = @ \/ store[call[p].id] # seen[p]]
    /\ okCount' = [okCount EXCEPT ![call[p].id] = @ + 1]
    /\ lastVal' = [lastVal EXCEPT ![call[p].id][call[p].key] = call[p].value]
    /\ Returns(p, [call[p] EXCEPT !.value = Undefined], RememberResult(call[p].key))
    /\ UNCHANGED <<prompt, calls>>

SessionRecall(p, session_id, key) ==
    LET read == StorageGet(store, session_id)
        c == [NoCall EXCEPT !.tool = "session_recall",
                            !.session_id = session_id, !.id = session_id,
                            !.key = key]
    IN  /\ Dispatched(p)
        /\ Returns(p, c, IF ~read.exists THEN NotFound(session_id)
                                         ELSE RecallResult(read, key))
        /\ UNCHANGED <<store, prompt, okCount, lastVal, raced>>

(* storage.get rejects: no handler of a session tool catches it. *)
StorageGetFails(p, tool) ==
    /\ Dispatched(p)
    /\ Returns(p, [NoCall EXCEPT !.tool = tool], Fault)
    /\ UNCHANGED <<store, prompt, okCount, lastVal, raced>>

(* storage.put rejects: nothing is written, and no handler catches it. *)
StoragePutFails(p) ==
    /\ pc[p] = "put"
    /\ Returns(p, call[p], Fault)
    /\ UNCHANGED <<store, prompt, calls, okCount, lastVal, raced>>

SessionTools == {"session_create", "session_remember", "session_recall"}

-----------------------------------------------------------------------------
(* The inference client and the tools built on it *)

CORTENSOR_ROUTER == "https://cortensor.app"

Advisory == "\n\ncortensor testnet may be syncing. mcp integration is functional."

Threw(message) == [threw |-> TRUE, value |-> message]
Resolved(value) == [threw |-> FALSE, value |-> value]

(* cortensorInfer(prompt), given what its fetch settles with: the string it
   resolves to, or the message of the Error it rejects with. *)
cortensorInfer(response) ==
    IF response.kind = "rejected" THEN Threw(response.message)
    ELSE IF ~Ok(response) THEN Threw("cortensor " \o ToString(response.status))
    ELSE IF response.body.kind = "invalid"
         THEN Threw("Unexpected token < in JSON at position 0")
    ELSE IF response.body.kind = "null"
         THEN Threw("Cannot read properties of null (reading 'result')")
    ELSE IF Truthy(response.body.result) THEN Resolved(response.body.result)
    ELSE Resolved(response.body.json)

(* formatError(tool, error), error an Error with this message. *)
formatError(tool, message) == "[" \o tool \o "] failed: " \o message \o Advisory

TaskTypes ==
    {"analyze", "summarize", "extract", "generate", "validate", "decide", "plan"}

OutputFormats == {"text", "json", "markdown", "list"}

formats(output_format) ==
    CASE output_format = "text" -> "Respond in plain text."
      [] output_format = "json" -> "Respond with valid JSON only."
      [] output_format = "markdown" -> "Respond in markdown."
      [] output_format = "list" -> "Respond as a numbered list."

tasks(task_type) ==
    CASE task_type = "analyze" -> "Analyze thoroughly, identify patterns and insights."
      [] task_type = "summarize" -> "Summarize concisely, preserve key info."
      [] task_type = "extract" -> "Extract key data points and entities."
      [] task_type = "generate" -> "Generate content based on requirements."
      [] task_type = "validate" -> "Validate for correctness and flag issues."
      [] task_type = "decide" -> "Make a reasoned decision with explanation."
      [] task_type = "plan" -> "Create actionable plan with steps and priorities."

(* A default parameter value: taken when the argument is undefined. *)
Default(arg, default) == IF arg = Undefined THEN default ELSE arg

TaskRoutePrompt(task_type, input, output_format) ==
    tasks(task_type) \o " " \o formats(Default(output_format, "text"))
    \o "\n\nINPUT:\n" \o input

(* r.weight || 1 *)
RubricWeight(weight) ==
    IF weight.given /\ weight.value # 0 THEN weight.value ELSE 1

(* pass_threshold = 70 *)
PassThreshold(pass_threshold) ==
    IF pass_threshold.given THEN pass_threshold.value ELSE 70

RubricText(rubric) ==
    Join([i \in 1..Len(rubric) |->
             ToString(i) \o ". " \o rubric[i].criterion \o " (weight: "
             \o ToString(RubricWeight(rubric[i].weight)) \o ")"], "\n")

ValidateRubricPrompt(content, rubric, pass_threshold) ==
    "Score this content against each criterion 0-100. Return JSON with scores, total_score (weighted avg), pass (true if >= "
    \o ToString(PassThreshold(pass_threshold))
    \o "), and summary.\n\nRUBRIC:\n" \o RubricText(rubric)
    \o "\n\nCONTENT:\n" \o content

ValidateConsistencyPrompt(content, reference) ==
    "Check for contradictions and inconsistencies. Return JSON: {consistent: bool, issues: [{type, description, severity}], summary}."
    \o (IF Truthy(reference) THEN "\n\nREFERENCE:\n" \o reference ELSE "")
    \o "\n\nCONTENT:\n" \o content

ContentTypes == {"code", "docs", "readme", "issue", "changelog"}

ResearchAnalyzePrompt(content, content_type) ==
    "Analyze this " \o content_type
    \o ". Return JSON with: summary, issues found, todos, and action_items prioritized.\n\nCONTENT:\n"
    \o content

ReportTypes == {"digest", "changelog", "status"}

ResearchSummarizePrompt(items, report_type) ==
    "Create a " \o Default(report_type, "digest")
    \o " report. Include highlights, key details, and action items.\n\nITEMS:\n"
    \o Join([i \in 1..Len(items) |->
                "[" \o ToString(i) \o "] " \o items[i].title \o ": "
                \o items[i].content], "\n")

InferenceTools ==
    {"task_route", "validate_rubric", "validate_consistency", "research_analyze",
     "research_summarize", "cortensor_infer"}

(* The handler has built its prompt and awaits cortensorInfer's fetch. *)
AwaitsInference(p, tool, args, text) ==
    /\ Dispatched(p)
    /\ call' = [call EXCEPT ![p] = [NoCall EXCEPT !.tool = tool, !.args = args]]
    /\ prompt' = [prompt EXCEPT ![p] = text]
    /\ pc' = [pc EXCEPT ![p] = "fetch"]
    /\ returned' = NoReturn
    /\ UNCHANGED <<store, session, seen, okCount, lastVal, raced>>

TaskRoute(p, task_type, input, output_format) ==
    AwaitsInference(p, "task_route", <<task_type, input, output_format>>,
                    TaskRoutePrompt(task_type, input, output_format))

ValidateRubric(p, content, rubric, pass_threshold) ==
    AwaitsInference(p, "validate_rubric", <<content, rubric, pass_threshold>>,
                    ValidateRubricPrompt(content, rubric, pass_threshold))

ValidateConsistency(p, content, reference) ==
    AwaitsInference(p, "validate_consistency", <<content, reference>>,
                    ValidateConsistencyPrompt(content, reference))

ResearchAnalyze(p, content, content_type) ==
    AwaitsInference(p, "research_analyze", <<content, content_type>>,
                    ResearchAnalyzePrompt(content, content_type))

ResearchSummarize(p, items, report_type) ==
    AwaitsInference(p, "research_summarize", <<items, report_type>>,
                    ResearchSummarizePrompt(items, report_type))

CortensorInferTool(p, text) ==
    AwaitsInference(p, "cortensor_infer", <<text>>, text)

(* Mutation: the handler has no try/catch. *)
InferenceResultUncaught(tool, response) ==
    LET outcome == cortensorInfer(response)
    IN  IF outcome.threw THEN Fault ELSE Text(outcome.value)

(* try { result = await cortensorInfer(...); return text: result }
   catch (error) { return text: formatError('<tool>', error) } *)
InferenceResult(tool, response) ==
    LET outcome == cortensorInfer(response)
    IN  Text(IF outcome.threw THEN formatError(tool, outcome.value)
             ELSE outcome.value)

Settles(p, r, response) ==
    /\ returned' = [call |-> call[p], result |-> r, response |-> response]
    /\ pc' = [pc EXCEPT ![p] = "idle"]
    /\ call' = [call EXCEPT ![p] = NoCall]
    /\ prompt' = [prompt EXCEPT ![p] = ""]
    /\ UNCHANGED <<store, session, calls, seen, okCount, lastVal, raced>>

InferenceSettles(p, response) ==
    /\ pc[p] = "fetch"
    /\ call[p].tool \in InferenceTools
    /\ Settles(p, InferenceResult(call[p].tool, response), response)

(* cortensor_status: JSON.stringify(checks, null, 2); the clock's readings
   stand as <now> and <elapsed>. *)
StatusResult(response) ==
    Text("{\n  \"router\": " \o Quote(CORTENSOR_ROUTER)
         \o ",\n  \"mcp_server\": \"operational\",\n  \"timestamp\": \"<now>\""
         \o (IF response.kind = "rejected" THEN ""
             ELSE ",\n  \"latency_ms\": <elapsed>")
         \o ",\n  \"network\": "
         \o Quote(IF response.kind = "rejected" THEN "unreachable"
                  ELSE IF Ok(response) THEN "online" ELSE "degraded")
         \o "\n}")

CortensorStatus(p) ==
    /\ Dispatched(p)
    /\ call' = [call EXCEPT ![p] = [NoCall EXCEPT !.tool = "cortensor_status"]]
    /\ pc' = [pc EXCEPT ![p] = "fetch"]
    /\ returned' = NoReturn
    /\ UNCHANGED <<store, session, prompt, seen, okCount, lastVal, raced>>

StatusSettles(p, response) ==
    /\ pc[p] = "fetch"
    /\ call[p].tool = "cortensor_status"
    /\ Settles(p, StatusResult(response), response)

(* Arguments the inference tools are called with *)
Weights == {NotGiven(0), Given(0), Given(2)}
Thresholds == {NotGiven(0), Given(0), Given(50)}
Criteria == {"clarity"}
RubricEntries == [criterion : Criteria, weight : Weights]
Rubrics == UNION {[1..n -> RubricEntries] : n \in 0..MaxRubric}
Items == UNION {[1..n -> {[title |-> "T", content |-> "C"]}] : n \in 0..MaxRubric}


Init ==
    /\ store \in {[id \in StoreIds |->
                        IF id \in persisted THEN NewSession(EmptyObject) ELSE NoSession] :
                   persisted \in SUBSET ExplicitIds}
    /\ call = [p \in Procs |-> NoCall]
    /\ pc = [p \in Procs |-> "idle"]
    /\ session = [p \in Procs |-> NoSession]
    /\ returned = NoReturn
    /\ prompt = [p \in Procs |-> ""]
    /\ calls = 0
    /\ seen = [p \in Procs |-> NoSession]
    /\ okCount = [id \in StoreIds |-> 0]
    /\ lastVal = [id \in StoreIds |-> NoValues]
    /\ raced = [id \in StoreIds |-> FALSE]

Next ==
    \E p \in Procs :
        \/ \E session_id \in ExplicitIds \cup {"", Undefined},
              initial_context \in InitialContexts, generated \in GenIds :
              SessionCreate(p, session_id, initial_context, generated)
        \/ SessionCreatePut(p)
        \/ \E session_id \in LookupIds, key \in Keys, value \in Values :
              SessionRemember(p, session_id, key, value)
        \/ SessionRememberPut(p)
        \/ \E session_id \in LookupIds, key \in Keys \cup {Undefined} :
              SessionRecall(p, session_id, key)
        \/ \E tool \in SessionTools : StorageGetFails(p, tool)
        \/ StoragePutFails(p)

Spec == Init /\ [][Next]_vars

(* The tools that work on the network only.  Their handlers share no state,
   so their invocations are taken one at a time. *)
InferNext ==
    \E p \in {"p1"} :
        \/ \E task_type \in TaskTypes, output_format \in OutputFormats \cup {Undefined} :
              TaskRoute(p, task_type, "X", output_format)
        \/ \E rubric \in Rubrics, pass_threshold \in Thresholds :
              ValidateRubric(p, "C", rubric, pass_threshold)
        \/ \E reference \in {Undefined, "", "REF"} :
              ValidateConsistency(p, "C", reference)
        \/ \E content_type \in ContentTypes : ResearchAnalyze(p, "C", content_type)
        \/ \E items \in Items, report_type \in ReportTypes \cup {Undefined} :
              ResearchSummarize(p, items, report_type)
        \/ CortensorInferTool(p, "P")
        \/ CortensorStatus(p)
        \/ \E response \in Responses : InferenceSettles(p, response)
        \/ \E response \in Responses : StatusSettles(p, response)

InferSpec == Init /\ [][InferNext]_vars

-----------------------------------------------------------------------------
(* Vocabulary of the properties *)

Contains(s, sub) ==
    \E i \in 1..(Len(s) - Len(sub) + 1) : SubSeq(s, i, i + Len(sub) - 1) = sub

EndsWith(s, suffix) ==
    /\ Len(suffix) <= Len(s)
    /\ SubSeq(s, Len(s) - Len(suffix) + 1, Len(s)) = suffix

(* The objects a recalled context can be, and the object a JSON text denotes. *)
PlainKeys == Keys \ {"__proto__"}

Objects ==
    {<<>>}
    \cup { << <<k, v>> >> : k \in PlainKeys, v \in Values }
    \cup { o \in { << <<k1, v1>>, <<k2, v2>> >> :
                      k1 \in PlainKeys, k2 \in PlainKeys,
                      v1 \in Values, v2 \in Values } : o[1][1] # o[2][1] }

JSONparse(text) == CHOOSE obj \in Objects : StringifyObject(obj) = text

(* This step dispatches an invocation; the call it dispatches. *)
Dispatching == calls' = calls + 1

DispatchedCall == IF returned' = NoReturn THEN call'[FreeSlot] ELSE returned'.call

(* This step is the storage.put of slot p taking effect. *)
Puts(p) == pc[p] = "put" /\ pc'[p] = "idle" /\ returned'.result.type = "text"

(* No invocation is under way. *)
Quiet == \A p \in Procs : pc[p] = "idle"

NotFoundText(session_id) == "session " \o session_id \o " not found"

-----------------------------------------------------------------------------
(* C1: after session_remember calls made one after another on an existing
   session, session_recall without a key returns a context whose value at
   every remembered key is the value of the last remember with that key, and
   the stored history has one entry per remember call. *)
C1_RecallAfterRemembers ==
    LET c == returned.call
    IN  (/\ c.tool = "session_recall"
         /\ c.key = Undefined
         /\ returned.result.type = "text"
         /\ store[c.id].exists
         /\ ~raced[c.id])
        => /\ \A k \in Keys :
                lastVal[c.id][k] # Undefined
                => GetProp(JSONparse(returned.result.text), k) = lastVal[c.id][k]
           /\ Len(store[c.id].history) = okCount[c.id]

(* The same for every key but "__proto__". *)
RecallAfterRemembersPlainKeys ==
    LET c == returned.call
    IN  (/\ c.tool = "session_recall"
         /\ c.key = Undefined
         /\ returned.result.type = "text"
         /\ store[c.id].exists
         /\ ~raced[c.id])
        => /\ \A k \in PlainKeys :
                lastVal[c.id][k] # Undefined
                => GetProp(JSONparse(returned.result.text), k) = lastVal[c.id][k]
           /\ Len(store[c.id].history) = okCount[c.id]

RecallAfterOverwrite ==
    /\ returned.call.tool = "session_recall"
    /\ returned.call.key = Undefined
    /\ returned.result.type = "text"
    /\ ~raced[returned.call.id]
    /\ okCount[returned.call.id] = 2
    /\ Len(store[returned.call.id].context) = 1

-----------------------------------------------------------------------------
(* C2 as stated: a session_create that directly follows a session_create
   with the same explicit session_id returns what the first returned and
   leaves the store as it is. *)
C2_SecondCreateSameResult ==
    [][(/\ Dispatching
        /\ Quiet
        /\ returned.call.tool = "session_create"
        /\ returned.result.type = "text"
        /\ returned.call.session_id # Undefined
        /\ DispatchedCall.tool = "session_create"
        /\ DispatchedCall.session_id = returned.call.session_id)
       => /\ returned'.result = returned.result
          /\ store' = store]_vars

(* C2 amended: session_create with a non-empty explicit session_id whose
   record exists writes nothing, ignores initial_context and returns that id
   with the keys of the stored record; directly after a session_create with
   the same id it returns what that call returned. *)
C2_NonEmptyIdLookup ==
    [][(/\ Dispatching
        /\ DispatchedCall.tool = "session_create"
        /\ Truthy(DispatchedCall.session_id)
        /\ store[DispatchedCall.session_id].exists)
       => LET sid == DispatchedCall.session_id
          IN  /\ store' = store
              /\ pc' = pc
              /\ returned'.result =
                    Text(StringifyCreated(sid, ObjectKeys(store[sid].context)))
              /\ (/\ Quiet
                  /\ returned.call.tool = "session_create"
                  /\ returned.result.type = "text"
                  /\ returned.call.session_id = sid)
                 => returned'.result = returned.result]_vars

C2_InitialContextIgnored ==
    /\ returned.call.tool = "session_create"
    /\ returned.call.session_id = "a"
    /\ returned.call.initial_context = Given(<< <<"k", "v1">> >>)
    /\ returned.result = Text(StringifyCreated("a", <<>>))
    /\ store["a"].exists
    /\ store["a"].context = <<>>
    /\ store["a"].history # <<>>

-----------------------------------------------------------------------------
(* C3: session_remember and session_recall whose lookup finds no session
   return the not-found text and change nothing in the store; the remember
   does not go on to write. *)
C3_NotFoundLeavesStore ==
    [][(/\ Dispatching
        /\ returned'.result.type # "fault"
        /\ DispatchedCall.tool \in {"session_remember", "session_recall"}
        /\ ~store[DispatchedCall.id].exists)
       => /\ returned'.result = Text(NotFoundText(DispatchedCall.session_id))
          /\ store' = store
          /\ pc' = pc]_vars

C3_RememberNotFound ==
    /\ returned.call.tool = "session_remember"
    /\ returned.call.id = "a"
    /\ returned.result = Text("session a not found")
    /\ ~store["a"].exists
    /\ Quiet

-----------------------------------------------------------------------------
(* C4: every tool invocation hands back a text payload whose text is a
   string; no fault escapes. *)
C4_AlwaysText ==
    returned.call.tool # "none"
    => /\ returned.result.type = "text"
       /\ returned.result.text # Undefined

-----------------------------------------------------------------------------
(* C5: when the inference request fails (the fetch rejects, the status is
   not a success, the body cannot be decoded), an inference-backed tool
   returns a text that contains the tool's name and ends with the error's
   message followed by the advisory note. *)
InferenceFailed(response) ==
    \/ response.kind = "rejected"
    \/ response.status < 200
    \/ response.status > 299
    \/ response.body.kind \in {"invalid", "null"}

FailureMessage(response) ==
    IF response.kind = "rejected" THEN response.message
    ELSE IF response.status < 200 \/ response.status > 299
         THEN "cortensor " \o ToString(response.status)
    ELSE IF response.body.kind = "invalid"
         THEN "Unexpected token < in JSON at position 0"
    ELSE "Cannot read properties of null (reading 'result')"

C5_FailureIsText ==
    (/\ returned.call.tool \in InferenceTools
     /\ InferenceFailed(returned.response))
    => /\ returned.result.type = "text"
       /\ Contains(returned.result.text, "[" \o returned.call.tool \o "] failed: ")
       /\ EndsWith(returned.result.text,
                   FailureMessage(returned.response)
                   \o "\n\ncortensor testnet may be syncing. mcp integration is functional.")

C5_SummarizeFailed ==
    /\ returned.call.tool = "research_summarize"
    /\ returned.response.status = 503
    /\ returned.result =
          Text("[research_summarize] failed: cortensor 503\n\ncortensor testnet may be syncing. mcp integration is functional.")

-----------------------------------------------------------------------------
(* C6: the store's record of a session changes only by the put of a call
   addressed to that session, which writes the record the call built, and a
   call builds its record from the record stored under its own session id. *)
C6_SessionsIsolated ==
    [][/\ \A id \in StoreIds :
            store'[id] # store[id]
            => \E p \in Procs :
                  Puts(p) /\ call[p].id = id /\ store'[id] = session[p]
       /\ \A p \in Procs :
            (pc[p] = "idle" /\ pc'[p] = "put")
            => /\ seen'[p] = store[call'[p].id]
               /\ call'[p].tool = "session_remember"
                  => /\ session'[p].history =
                           Append(store[call'[p].id].history,
                                  "stored:" \o call'[p].key)
                     /\ \A k \in PlainKeys \ {call'[p].key} :
                           GetProp(session'[p].context, k)
                              = GetProp(store[call'[p].id].context, k)]_vars

C6_TwoSessionsInterleaved ==
    /\ returned.call.tool = "session_remember"
    /\ returned.result.type = "text"
    /\ store[returned.call.id].exists
    /\ \E p \in Procs :
          /\ pc[p] = "put"
          /\ call[p].tool = "session_remember"
          /\ call[p].id # returned.call.id
          /\ seen[p] = store[call[p].id]

-----------------------------------------------------------------------------
(* C7 as stated: the stored history never gets shorter, and its length is
   the number of session_remember calls on the session that returned
   success. *)
C7_HistoryCountsRemembers ==
    [][\A id \in StoreIds :
          /\ Len(store'[id].history) >= Len(store[id].history)
          /\ Len(store'[id].history) = okCount'[id]]_vars

(* C7 amended: a successful session_remember writes the history it read plus
   one "stored:<key>" entry, and the stored history is never longer than the
   number of successful remembers; while no put on the session has
   overwritten a record other than the one its handler read, the length
   equals that number and never decreases. *)
C7_HistoryUnlessOverwritten ==
    /\ [](\A id \in StoreIds :
            /\ Len(store[id].history) <= okCount[id]
            /\ ~raced[id] => Len(store[id].history) = okCount[id])
    /\ [][/\ \A id \in StoreIds :
               ~raced'[id] => Len(store'[id].history) >= Len(store[id].history)
          /\ \A p \in Procs :
               (Puts(p) /\ call[p].tool = "session_remember")
               => store'[call[p].id].history
                     = Append(seen[p].history, "stored:" \o call[p].key)]_vars

C7_TwoRemembersCounted ==
    /\ ~raced["a"]
    /\ okCount["a"] = 2
    /\ store["a"].history = <<"stored:k", "stored:k">>

-----------------------------------------------------------------------------
(* C8: session_recall on an existing session returns context[key] for every
   key it is given, the empty string included, and the whole context only
   when no key is given. *)
C8_RecallByKey ==
    LET c == returned.call
    IN  (/\ c.tool = "session_recall"
         /\ returned.result.type = "text"
         /\ store[c.id].exists)
        => returned.result.text =
              IF c.key # Undefined
              THEN StringifyData(GetProp(store[c.id].context, c.key), FALSE)
              ELSE StringifyObject(store[c.id].context)

-----------------------------------------------------------------------------
(* C9: the prompt of validate_rubric holds, for the n-th rubric entry, the
   line "<n>. <criterion> (weight: <w>)" with w the weight given (0
   included) and 1 only when none is given, and the pass threshold given (0
   included), 70 only when none is given. *)
C9_RubricRendering ==
    \A p \in Procs :
        (pc[p] = "fetch" /\ call[p].tool = "validate_rubric")
        => LET rubric == call[p].args[2]
               pass_threshold == call[p].args[3]
           IN  /\ \A n \in 1..Len(rubric) :
                     Contains(prompt[p],
                        ToString(n) \o ". " \o rubric[n].criterion \o " (weight: "
                        \o ToString(IF rubric[n].weight.given
                                    THEN rubric[n].weight.value ELSE 1)
                        \o ")")
               /\ Contains(prompt[p],
                     "pass (true if >= "
                     \o ToString(IF pass_threshold.given
                                 THEN pass_threshold.value ELSE 70)
                     \o ")")

-----------------------------------------------------------------------------
(* C10: a put performed by session_create never replaces the history or the
   context of a record that exists at the moment of the put. *)
C10_CreateNeverReplaces ==
    [][\A p \in Procs :
          (Puts(p) /\ call[p].tool = "session_create" /\ store[call[p].id].exists)
          => /\ store'[call[p].id].history = store[call[p].id].history
             /\ store'[call[p].id].context = store[call[p].id].context]_vars

(* A value stored by a completed session_remember is never lost to the put
   of a session_create. *)
RememberNeverLostToCreate ==
    [][\A p \in Procs :
          (Puts(p) /\ call[p].tool = "session_create")
          => Len(store'[call[p].id].history) >= Len(store[call[p].id].history)]_vars

====
